---- MODULE Spec2Model ----
(***************************************************************************)
(* SVGChessBoard (svg-chess-board.component.ts): the pointer/touch drag    *)
(* and drop controller of ng2-chess, as a state machine.                   *)
(*                                                                         *)
(* The component's fields are the variables; every DOM event, engine       *)
(* notification, promise resolution and public method is one action.       *)
(* The chess engine, the board controller (ctrl.move), SVGChessPiece,      *)
(* SVGChessBlock and BaseBlock.pointToIndex are collaborators whose code   *)
(* is not part of the component; they are modelled from its interface      *)
(* description and from the comments of the component.                     *)
(***************************************************************************)
EXTENDS Integers, Sequences, FiniteSets, TLC

VARIABLES
    pos,            \* engine: piece -> index of piece.block (logical board)
    turn,           \* engine.turn()
    moveCount,      \* number of moves the authority has accepted
    dragPiece,      \* this.dragPiece (None = undefined)
    isDisabled,     \* this.isDisabled
    isBusy,         \* this.isBusy
    banner,         \* this.banner ("undefined" or the message)
    highlighted,    \* this.highlighted
    rxWaste,        \* this.rxWaste: stack of subscriptions, by kind
    listeners,      \* kind -> number of live (not unsubscribed) subscriptions
    mouseStreams,   \* number of live inner streams of mousedrag
    touchStreams,   \* number of live inner streams of touchdrag
    lifted,         \* piece handles with dragStart() and no dragEnd() yet
    moved,          \* piece handles displaced by setCoordinates() and not settled
    pieceBlock,     \* SVGChessPiece.block: piece handle -> paired square handle
    blockPiece,     \* SVGChessBlock.piece: square handle -> piece handle
    pending,        \* ctrl.move promises not yet resolved (history: stale =
                    \*          newGame() has run since the request was made)
    origin,         \* history: pairing of dragPiece at the last start event
    gesture,        \* history: the rejected gesture in progress, from its start
                    \*          event to the end event of its family
    dropped,        \* history: dropPiece has run for the piece lifted now
    budget,         \* history: number of events still to be delivered
    \* the numbers of one accepted gesture (closure of the flatMap callback)
    dragFamily,     \* "none", or the family whose inner stream is live
    lastX,          \* let lastX
    lastY,          \* let lastY
    viewPortRatioX, \* const viewPortRatioX
    viewPortRatioY, \* const viewPortRatioY
    surface,        \* clientWidth / clientHeight of the <svg> element now
    coords,         \* the offset accumulated by dragPiece.setCoordinates
    start,          \* history: the sample of the start event
    samples,        \* history: number of move events of the gesture
    \* the rendered view and the timers of move(piece)
    rendered,       \* this.pieces: the pieces that have a rendered handle
    inEngine,       \* engine.pieces
    timers          \* piece -> number of setTimeout(() => this.move(piece)) due

renderVars == << rendered, inEngine, timers >>

deltaVars == << dragFamily, lastX, lastY, viewPortRatioX, viewPortRatioY,
                surface, coords, start, samples >>

boardVars == << pos, turn, moveCount, dragPiece, isDisabled, isBusy, banner,
                highlighted, rxWaste, listeners, mouseStreams, touchStreams,
                lifted, moved, pieceBlock, blockPiece, pending, origin, gesture,
                dropped, budget >>

vars == << boardVars, deltaVars, renderVars >>

-----------------------------------------------------------------------------
(* Bounds of the model *)

RowCount == 2
MaxMoves == 1
MaxPending == 2
MaxStreams == 1
MaxEvents == 6          \* events of a run of the whole component
MaxDragEvents == 8      \* events of a run of pointer gestures
MaxSamples == 2         \* move events of one gesture
MaxTimers == 2          \* deferred calls of move(piece) due for one piece
MaxMoveEvents == 5      \* events of a run of move(piece)

-----------------------------------------------------------------------------
(* Geometry *)

width == 600
height == 600
blockSize == height \div RowCount

\* the rendered (responsive) size of the <svg> element and its page position
clientWidth == 300
clientHeight == 300
rectLeft == 10
rectTop == 20

ratioX == width \div clientWidth
ratioY == height \div clientHeight

Squares == 0 .. (RowCount * RowCount - 1)
NoSquare == -1

\* BaseBlock.pointToIndex: row-major index of the square holding a board point
pointToIndex(x, y) == (y \div blockSize) * RowCount + (x \div blockSize)

\* device coordinates the events are sampled from: the centre of every column
\* / row of the rendered board, one point left of / above it, one right of /
\* below it
CellCentre(c, size) == (c * size) \div RowCount + size \div (2 * RowCount)
BoardXs == { rectLeft + CellCentre(c, clientWidth) : c \in 0 .. RowCount - 1 }
BoardYs == { rectTop + CellCentre(r, clientHeight) : r \in 0 .. RowCount - 1 }
ClientXs == { rectLeft - 1, rectLeft + clientWidth + 1 } \cup BoardXs
ClientYs == { rectTop - 1, rectTop + clientHeight + 1 } \cup BoardYs

\* the start events come from the <svg> element, the end events from the
\* document: beside every row, and above and below the first column
StartPoints == BoardXs \X BoardYs
EndPoints == (ClientXs \X BoardYs)
             \cup ({ rectLeft + CellCentre(0, clientWidth) } \X ClientYs)

\* the device point is outside the rendered board rectangle
OutsideBoard(x, y) ==
    \/ x < rectLeft \/ x >= rectLeft + clientWidth
    \/ y < rectTop  \/ y >= rectTop + clientHeight

-----------------------------------------------------------------------------
(* The engine (external rule authority) *)

None == "none"
Pieces == { "WK", "WR", "BK" }
PieceOrder == << "WK", "WR", "BK" >>       \* order of the QueryList
Colour(p) == IF p = "BK" THEN "BLACK" ELSE "WHITE"
Other(c) == IF c = "WHITE" THEN "BLACK" ELSE "WHITE"

KingHome == RowCount * (RowCount - 1)
RookHome == RowCount * RowCount - 1
InitPos == [ p \in Pieces |->
               IF p = "WK" THEN KingHome ELSE IF p = "WR" THEN RookHome ELSE 0 ]

Occupied(ps) == { ps[p] : p \in Pieces }

Adjacent(s) ==
    { t \in Squares :
        \/ t = s - RowCount \/ t = s + RowCount
        \/ (t = s - 1 /\ s % RowCount # 0)
        \/ (t = s + 1 /\ t % RowCount # 0) }

\* castling: with king and rook at home and nothing between them, the king is
\* dropped on the rook and the two exchange their squares
IsCastling(p, dest, ps) ==
    /\ p = "WK" /\ ps["WK"] = KingHome /\ ps["WR"] = RookHome
    /\ dest = RookHome
    /\ \A s \in (KingHome + 1) .. (RookHome - 1) : s \notin Occupied(ps)

\* engine.moves(piece): the legal destinations of a piece
moves(p, ps) ==
    { t \in Adjacent(ps[p]) : t \notin Occupied(ps) }
    \cup { t \in Squares : IsCastling(p, t, ps) }

\* the logical board after an accepted move
ApplyMove(p, dest, ps) ==
    IF IsCastling(p, dest, ps)
    THEN [ ps EXCEPT !["WK"] = RookHome, !["WR"] = KingHome ]
    ELSE [ ps EXCEPT ![p] = dest ]

-----------------------------------------------------------------------------
(* The rendered handles (SVGChessPiece, SVGChessBlock) *)

\* pieces.toArray().filter(p => p.piece.block.index === i)[0]
FirstPieceAt(i, ps) ==
    LET hits == { k \in 1 .. Len(PieceOrder) : ps[PieceOrder[k]] = i }
    IN  IF hits = {} THEN None
        ELSE PieceOrder[CHOOSE k \in hits : \A j \in hits : k <= j]

\* the setter of SVGChessPiece.block: "piece.block = block will do block.piece = piece"
SetBlock(p, b, pb, bp) ==
    [ pieceBlock |-> [ pb EXCEPT ![p] = b ],
      blockPiece |-> [ bp EXCEPT ![b] = p ] ]

\* SVGChessPiece.reset(duration): the handle settles on the place of its square
reset(p, mv) == mv \ { p }

\* SVGChessPiece.dragEnd(): the piece leaves the lifted state and "sets itself
\* inside the block" of its logical square
dragEnd(p, lf, mv, pb, bp, ps) ==
    LET paired == SetBlock(p, ps[p], pb, bp)
    IN  [ lifted |-> lf \ { p }, moved |-> reset(p, mv),
          pieceBlock |-> paired.pieceBlock,
          blockPiece |-> paired.blockPiece ]

-----------------------------------------------------------------------------
(* SVGChessBoard: helpers *)

Kinds == { "boardSynced", "stateChanged", "mousedrag", "touchdrag",
           "mouseup", "touchend" }
GameStates == { "IN_PROGRESS", "CHECKMATE", "DRAW", "STALEMATE",
                "THREEFOLD_REPETITION", "INSUFFICIENT_MATERIAL" }

\* onStateChanged with "case GAME_STATE.STALEMATE:" left out of the switch
DrawStatesNoStalemate == { "DRAW", "THREEFOLD_REPETITION", "INSUFFICIENT_MATERIAL" }

\* the first group of cases of the switch of onStateChanged
DrawStates == GameStates \ { "IN_PROGRESS", "CHECKMATE" }

\* onStateChanged taking engine.winner() for the loser
bannerAfterSwapped(newState, winner, old) ==
    IF newState \in DrawStates THEN "It's a draw!"
    ELSE IF newState = "CHECKMATE"
         THEN (IF winner = "BLACK" THEN "White wins!" ELSE "Black wins!")
         ELSE old

\* onStateChanged: the message of this.banner after the switch
bannerAfter(newState, winner, old) ==
    IF newState \in DrawStates THEN "It's a draw!"
    ELSE IF newState = "CHECKMATE"
         THEN (IF winner = "BLACK" THEN "Black wins!" ELSE "White wins!")
         ELSE old

RemoveAt(s, i) == SubSeq(s, 1, i - 1) \o SubSeq(s, i + 1, Len(s))

\* Subscription.unsubscribe(): closes one live subscription of that kind
Unsubscribe(ls, k) == [ ls EXCEPT ![k] = IF @ > 0 THEN @ - 1 ELSE 0 ]

\* rxWaste.push(x.subscribe(..))
Subscribe(st, k) ==
    [ rxWaste |-> Append(st.rxWaste, k),
      listeners |-> [ st.listeners EXCEPT ![k] = @ + 1 ] ]

\* clearSubscriptions() with "if" for "while": only the last subscription goes
clearSubscriptionsOnce(rx, ls) ==
    IF Len(rx) > 0
    THEN [ rxWaste |-> SubSeq(rx, 1, Len(rx) - 1),
           listeners |-> Unsubscribe(ls, rx[Len(rx)]) ]
    ELSE [ rxWaste |-> rx, listeners |-> ls ]

\* clearSubscriptions(): while (rxWaste.length > 0) rxWaste.pop().unsubscribe()
RECURSIVE clearSubscriptions(_, _)
clearSubscriptions(rx, ls) ==
    IF Len(rx) > 0
    THEN clearSubscriptions(SubSeq(rx, 1, Len(rx) - 1), Unsubscribe(ls, rx[Len(rx)]))
    ELSE [ rxWaste |-> rx, listeners |-> ls ]

\* the four subscriptions registerDragAndDrop() makes and pushes
registerDragAndDrop(st) ==
    Subscribe(Subscribe(Subscribe(Subscribe(st, "mousedrag"), "touchdrag"),
                        "mouseup"), "touchend")

\* the guards of the mousedown callback before it lifts the piece
mousedragVerdict(dis, dp, t) ==
    IF dis THEN "blocked"
    ELSE IF dp = None THEN "nopiece"
    ELSE IF Colour(dp) # t THEN "colour"
    ELSE "accepted"

\* touchstart: the piece whose square was touched
TouchCandidate(x, y, ps) ==
    FirstPieceAt(pointToIndex((x - rectLeft) * ratioX, (y - rectTop) * ratioY), ps)

\* the guards of the touchstart callback before it lifts the piece
touchdragVerdict(dis, n, cand, t) ==
    IF dis THEN "blocked"
    ELSE IF n < 1 THEN "notouch"
    ELSE IF cand = None THEN "nopiece"
    ELSE IF Colour(cand) # t THEN "colour"
    ELSE "accepted"

\* dropPiece: the index of the square under the end event's point
DropIndex(x, y) == pointToIndex((x - rectLeft) * ratioX, (y - rectTop) * ratioY)

\* dropPiece taking only a highlighted square for a square handle
dropBlockIfHighlighted(idx) == IF idx \in highlighted THEN idx ELSE NoSquare

\* dropPiece: blocks.toArray()[dropBlockIndex], the square handle at the index
\* (NoSquare = undefined)
dropBlock(idx) == IF idx \in Squares THEN idx ELSE NoSquare

\* endDragAndDrop()
endDragAndDrop(dp, lf, mv, pb, bp, ps) ==
    LET e == dragEnd(dp, lf, mv, pb, bp, ps)
    IN  [ dragPiece |-> None, highlighted |-> {}, lifted |-> e.lifted,
          moved |-> e.moved, pieceBlock |-> e.pieceBlock,
          blockPiece |-> e.blockPiece ]

\* syncPiecesToBlocks(): the sweep over the square handles, from handle b on
RECURSIVE SyncFrom(_, _, _, _, _)
SyncFrom(b, mv, pb, bp, ps) ==
    IF b >= RowCount * RowCount
    THEN [ moved |-> mv, pieceBlock |-> pb, blockPiece |-> bp ]
    ELSE LET found == FirstPieceAt(b, ps)
         IN  IF found # None
             THEN LET s == SetBlock(found, b, pb, bp)
                  IN  SyncFrom(b + 1, reset(found, mv), s.pieceBlock, s.blockPiece, ps)
             ELSE SyncFrom(b + 1, mv, pb, [ bp EXCEPT ![b] = None ], ps)

\* syncPiecesToBlocks() without "pieces[i].block = b": the sweep settles the
\* pieces and clears the empty squares but pairs nothing
syncPiecesToBlocksUnpaired(mv, pb, bp, ps) ==
    [ moved |-> mv \ { p \in Pieces : ps[p] \in Squares },
      pieceBlock |-> pb,
      blockPiece |-> [ b \in Squares |->
                        IF FirstPieceAt(b, ps) = None THEN None ELSE bp[b] ] ]

syncPiecesToBlocks(mv, pb, bp, ps) == SyncFrom(0, mv, pb, bp, ps)

\* the callback of ctrl.move(..).then: what it leaves behind. A TypeError
\* (dragPiece is undefined) ends the callback where it is thrown.
ThenCallback(invalid, castling, dp, hl, lf, mv, pb, bp, ps) ==
    LET synced == IF ~invalid /\ castling
                  THEN syncPiecesToBlocks(mv, pb, bp, ps)
                  ELSE [ moved |-> mv, pieceBlock |-> pb, blockPiece |-> bp ]
    IN  IF dp = None
        THEN [ dragPiece |-> dp, highlighted |-> hl, lifted |-> lf,
               moved |-> synced.moved, pieceBlock |-> synced.pieceBlock,
               blockPiece |-> synced.blockPiece, threw |-> TRUE ]
        ELSE LET settled == IF invalid THEN reset(dp, synced.moved) ELSE synced.moved
                 e == endDragAndDrop(dp, lf, settled, synced.pieceBlock,
                                     synced.blockPiece, ps)
             IN  [ dragPiece |-> e.dragPiece, highlighted |-> e.highlighted,
                   lifted |-> e.lifted, moved |-> e.moved,
                   pieceBlock |-> e.pieceBlock, blockPiece |-> e.blockPiece,
                   threw |-> FALSE ]

-----------------------------------------------------------------------------
(* History: the rejected gesture in progress *)

NoGesture == [ fam |-> "none", kind |-> "none" ]

\* a start event that finds the board blocked, or that presses a piece of the
\* side not to move, opens a gesture the component is to ignore
StartGesture(fam, dis, cand, t) ==
    IF dis THEN [ fam |-> fam, kind |-> "blocked" ]
    ELSE IF cand # None /\ Colour(cand) # t THEN [ fam |-> fam, kind |-> "colour" ]
    ELSE NoGesture

\* one more event is delivered
Tick == budget > 0 /\ budget' = budget - 1

-----------------------------------------------------------------------------
(* State after construction *)

Constructed ==
    /\ pos = InitPos
    /\ turn = "WHITE"
    /\ moveCount = 0
    /\ dragPiece = None
    /\ isDisabled = FALSE
    /\ isBusy = FALSE
    /\ banner = "undefined"
    /\ highlighted = {}
    /\ rxWaste = << >>
    /\ listeners = [ k \in Kinds |-> 0 ]
    /\ mouseStreams = 0
    /\ touchStreams = 0
    /\ lifted = {}
    /\ moved = {}
    /\ pieceBlock = InitPos
    /\ blockPiece = [ b \in Squares |-> FirstPieceAt(b, InitPos) ]
    /\ pending = << >>
    /\ origin = NoSquare
    /\ gesture = NoGesture
    /\ dropped = FALSE
    /\ rendered = Pieces
    /\ inEngine = Pieces
    /\ timers = [ p \in Pieces |-> 0 ]

\* no gesture has been accepted yet
NoDrag ==
    /\ dragFamily = "none"
    /\ lastX = 0 /\ lastY = 0
    /\ viewPortRatioX = 0 /\ viewPortRatioY = 0
    /\ surface = [ w |-> clientWidth, h |-> clientHeight ]
    /\ coords = [ x |-> 0, y |-> 0 ]
    /\ start = [ x |-> 0, y |-> 0 ]
    /\ samples = 0

Init == Constructed /\ NoDrag /\ budget = MaxEvents

InitDrag == Constructed /\ NoDrag /\ budget = MaxDragEvents

-----------------------------------------------------------------------------
(* Actions *)

\* newGame()
NewGame ==
    LET c == clearSubscriptions(rxWaste, listeners)
        r == registerDragAndDrop(Subscribe(Subscribe(c, "boardSynced"), "stateChanged"))
    IN  /\ Tick
        /\ rxWaste' = r.rxWaste
        /\ listeners' = r.listeners
        /\ mouseStreams' = IF c.listeners["mousedrag"] = 0 THEN 0 ELSE mouseStreams
        /\ touchStreams' = IF c.listeners["touchdrag"] = 0 THEN 0 ELSE touchStreams
        /\ isBusy' = FALSE
        /\ isDisabled' = FALSE
        /\ banner' = "undefined"
        /\ pending' = [ i \in DOMAIN pending |-> [ pending[i] EXCEPT !.stale = TRUE ] ]
        /\ UNCHANGED << deltaVars, renderVars >>
        /\ UNCHANGED << pos, turn, moveCount, dragPiece, highlighted, lifted, moved,
                        pieceBlock, blockPiece, origin, gesture, dropped >>

\* ngOnDestroy()
Destroy ==
    LET c == clearSubscriptions(rxWaste, listeners)
    IN  /\ Tick
        /\ rxWaste' = c.rxWaste
        /\ listeners' = c.listeners
        /\ mouseStreams' = IF c.listeners["mousedrag"] = 0 THEN 0 ELSE mouseStreams
        /\ touchStreams' = IF c.listeners["touchdrag"] = 0 THEN 0 ELSE touchStreams
        /\ UNCHANGED << deltaVars, renderVars >>
        /\ UNCHANGED << pos, turn, moveCount, dragPiece, isDisabled, isBusy, banner,
                        highlighted, lifted, moved, pieceBlock, blockPiece, pending,
                        origin, gesture, dropped >>

\* engine.stateChanged emits newState; winner is engine.winner()
StateChanged(newState, winner) ==
    LET over == newState \in DrawStates \cup { "CHECKMATE" }
        c == IF over THEN clearSubscriptions(rxWaste, listeners)
             ELSE [ rxWaste |-> rxWaste, listeners |-> listeners ]
    IN  /\ Tick
        /\ listeners["stateChanged"] > 0
        /\ banner' = bannerAfter(newState, winner, banner)
        /\ rxWaste' = c.rxWaste
        /\ listeners' = c.listeners
        /\ mouseStreams' = IF c.listeners["mousedrag"] = 0 THEN 0 ELSE mouseStreams
        /\ touchStreams' = IF c.listeners["touchdrag"] = 0 THEN 0 ELSE touchStreams
        /\ UNCHANGED << deltaVars, renderVars >>
        /\ UNCHANGED << pos, turn, moveCount, dragPiece, isDisabled, isBusy,
                        highlighted, lifted, moved, pieceBlock, blockPiece, pending,
                        origin, gesture, dropped >>

\* blockUi(value)
BlockUi(value) ==
    /\ Tick
    /\ isDisabled' = value
    /\ UNCHANGED << deltaVars, renderVars >>
    /\ UNCHANGED << pos, turn, moveCount, dragPiece, isBusy, banner, highlighted,
                    rxWaste, listeners, mouseStreams, touchStreams, lifted, moved,
                    pieceBlock, blockPiece, pending, origin, gesture, dropped >>

\* engine.boardSynced emits
BoardSynced ==
    LET s == syncPiecesToBlocks(moved, pieceBlock, blockPiece, pos)
    IN  /\ Tick
        /\ listeners["boardSynced"] > 0
        /\ moved' = s.moved
        /\ pieceBlock' = s.pieceBlock
        /\ blockPiece' = s.blockPiece
        /\ UNCHANGED << deltaVars, renderVars >>
        /\ UNCHANGED << pos, turn, moveCount, dragPiece, isDisabled, isBusy, banner,
                        highlighted, rxWaste, listeners, mouseStreams, touchStreams,
                        lifted, pending, origin, gesture, dropped >>

\* move(piece) rescheduling itself whenever the piece has no handle
moveUnconditional(p, rd, eng, tm, mv, pb, bp, ps) ==
    IF p \in rd
    THEN LET s == SetBlock(p, ps[p], pb, bp)
         IN  [ timers |-> tm, moved |-> reset(p, mv),
               pieceBlock |-> s.pieceBlock, blockPiece |-> s.blockPiece ]
    ELSE [ timers |-> [ tm EXCEPT ![p] = @ + 1 ], moved |-> mv,
           pieceBlock |-> pb, blockPiece |-> bp ]

\* move(piece): the handle of the piece is put on the square of piece.block;
\* without a handle, a piece of engine.pieces is moved on the next tick
move(p, rd, eng, tm, mv, pb, bp, ps) ==
    IF p \in rd
    THEN LET s == SetBlock(p, ps[p], pb, bp)
         IN  [ timers |-> tm, moved |-> reset(p, mv),
               pieceBlock |-> s.pieceBlock, blockPiece |-> s.blockPiece ]
    ELSE IF p \in eng
         THEN [ timers |-> [ tm EXCEPT ![p] = @ + 1 ], moved |-> mv,
                pieceBlock |-> pb, blockPiece |-> bp ]
         ELSE [ timers |-> tm, moved |-> mv, pieceBlock |-> pb, blockPiece |-> bp ]

\* a call of move(piece) from outside
MoveUi(p) ==
    LET m == move(p, rendered, inEngine, timers, moved, pieceBlock, blockPiece, pos)
    IN  /\ Tick
        /\ m.timers[p] <= MaxTimers
        /\ timers' = m.timers
        /\ pieceBlock' = m.pieceBlock
        /\ blockPiece' = m.blockPiece
        /\ moved' = m.moved
        /\ UNCHANGED << deltaVars, rendered, inEngine >>
        /\ UNCHANGED << pos, turn, moveCount, dragPiece, isDisabled, isBusy, banner,
                        highlighted, rxWaste, listeners, mouseStreams, touchStreams,
                        lifted, pending, origin, gesture, dropped >>

\* what a start event leaves behind once its candidate dp and verdict are known
StartEffects(fam, dp, verdict) ==
    LET acc == verdict = "accepted"
    IN  /\ Tick
        /\ acc => (IF fam = "mouse" THEN mouseStreams ELSE touchStreams) < MaxStreams
        /\ dragPiece' = dp
        /\ lifted' = IF acc THEN lifted \cup { dp } ELSE lifted
        /\ highlighted' = IF acc THEN moves(dp, pos) ELSE highlighted
        /\ mouseStreams' = IF acc /\ fam = "mouse" THEN mouseStreams + 1 ELSE mouseStreams
        /\ touchStreams' = IF acc /\ fam = "touch" THEN touchStreams + 1 ELSE touchStreams
        /\ origin' = IF dp = None THEN NoSquare ELSE pieceBlock[dp]
        /\ dropped' = IF acc \/ dp # dragPiece THEN FALSE ELSE dropped
        /\ UNCHANGED << deltaVars, renderVars >>
        /\ UNCHANGED << pos, turn, moveCount, isDisabled, isBusy, banner, rxWaste,
                        listeners, moved, pieceBlock, blockPiece, pending >>

\* a mousedown on the piece handle target (onPieceDrag, then the mousedown
\* callback of mousedrag), or on the board beside the pieces (target = None)
MouseDown(target) ==
    LET dp == IF target # None THEN target ELSE dragPiece
        verdict == IF listeners["mousedrag"] > 0
                   THEN mousedragVerdict(isDisabled, dp, turn)
                   ELSE "nolistener"
    IN  /\ target # None \/ listeners["mousedrag"] > 0
        /\ StartEffects("mouse", dp, verdict)
        /\ gesture' = IF listeners["mousedrag"] > 0
                      THEN StartGesture("mouse", isDisabled, dp, turn)
                      ELSE gesture

\* a touchstart with n touches, the first at the device point (x, y)
TouchStart(n, x, y) ==
    LET cand == TouchCandidate(x, y, pos)
        verdict == touchdragVerdict(isDisabled, n, cand, turn)
        reached == verdict \notin { "blocked", "notouch" }
        dp == IF reached THEN cand ELSE dragPiece
    IN  /\ listeners["touchdrag"] > 0
        /\ StartEffects("touch", dp, verdict)
        /\ gesture' = StartGesture("touch", isDisabled,
                                    IF n < 1 THEN None ELSE cand, turn)

\* a mousemove / touchmove on the board: every live inner stream of the family
\* emits and the subscriber calls dragPiece.setCoordinates. With dragPiece
\* undefined the subscriber throws and its subscription is closed.
Move(fam) ==
    LET sub == IF fam = "mouse" THEN "mousedrag" ELSE "touchdrag"
        streams == IF fam = "mouse" THEN mouseStreams ELSE touchStreams
        throws == streams > 0 /\ dragPiece = None
    IN  /\ Tick
        /\ listeners[sub] > 0
        /\ moved' = IF streams > 0 /\ ~throws THEN moved \cup { dragPiece } ELSE moved
        /\ listeners' = IF throws THEN Unsubscribe(listeners, sub) ELSE listeners
        /\ mouseStreams' = IF throws /\ fam = "mouse" THEN 0 ELSE mouseStreams
        /\ touchStreams' = IF throws /\ fam = "touch" THEN 0 ELSE touchStreams
        /\ UNCHANGED << deltaVars, renderVars >>
        /\ UNCHANGED << pos, turn, moveCount, dragPiece, isDisabled, isBusy, banner,
                        highlighted, rxWaste, lifted, pieceBlock, blockPiece,
                        pending, origin, gesture, dropped >>

MouseMove == Move("mouse")
TouchMove == Move("touch")

\* a mouseup / touchend anywhere in the document at the device point (x, y):
\* the drop subscription runs dropPiece when a piece is held, and the inner
\* streams of the family complete (takeUntil)
End(fam, x, y) ==
    LET sub == IF fam = "mouse" THEN "mouseup" ELSE "touchend"
        streams == IF fam = "mouse" THEN mouseStreams ELSE touchStreams
        runs == listeners[sub] > 0 /\ dragPiece # None
        idx == DropIndex(x, y)
        asks == runs /\ dropBlock(idx) # NoSquare
        ends == runs /\ dropBlock(idx) = NoSquare
        e == endDragAndDrop(dragPiece, lifted, moved, pieceBlock, blockPiece, pos)
    IN  /\ Tick
        /\ listeners[sub] > 0 \/ streams > 0
        /\ moved' = IF ends THEN e.moved ELSE moved
        /\ asks => Len(pending) < MaxPending
        /\ pending' = IF asks
                      THEN Append(pending, [ piece |-> dragPiece, dest |-> dropBlock(idx),
                                             stale |-> FALSE ])
                      ELSE pending
        /\ dragPiece' = IF ends THEN e.dragPiece ELSE dragPiece
        /\ highlighted' = IF ends THEN e.highlighted ELSE highlighted
        /\ lifted' = IF ends THEN e.lifted ELSE lifted
        /\ pieceBlock' = IF ends THEN e.pieceBlock ELSE pieceBlock
        /\ blockPiece' = IF ends THEN e.blockPiece ELSE blockPiece
        /\ origin' = IF ends THEN NoSquare ELSE origin
        /\ mouseStreams' = IF fam = "mouse" THEN 0 ELSE mouseStreams
        /\ touchStreams' = IF fam = "touch" THEN 0 ELSE touchStreams
        /\ gesture' = IF gesture.fam = fam THEN NoGesture ELSE gesture
        /\ dropped' = IF ends THEN FALSE
                      ELSE IF asks /\ dragPiece \in lifted THEN TRUE ELSE dropped
        /\ UNCHANGED << deltaVars, renderVars >>
        /\ UNCHANGED << pos, turn, moveCount, isDisabled, isBusy, banner, rxWaste,
                        listeners >>

MouseUp(x, y) == End("mouse", x, y)
TouchEnd(x, y) == End("touch", x, y)

\* the authority's answer to a request: it accepts a legal move of the side
\* to move and rejects any other
Accepts(req, ps, t) == Colour(req.piece) = t /\ req.dest \in moves(req.piece, ps)

\* the authority settles the i-th pending ctrl.move (on acceptance the logical
\* board has changed) and the then-callback of dropPiece runs with the result
ResolveMove(i) ==
    LET req == pending[i]
        valid == Accepts(req, pos, turn)
        castling == valid /\ IsCastling(req.piece, req.dest, pos)
        ps == IF valid THEN ApplyMove(req.piece, req.dest, pos) ELSE pos
        t == ThenCallback(~valid, castling, dragPiece, highlighted, lifted, moved,
                          pieceBlock, blockPiece, ps)
    IN  /\ Tick
        /\ valid => moveCount < MaxMoves
        /\ moved' = t.moved
        /\ pending' = RemoveAt(pending, i)
        /\ pos' = ps
        /\ turn' = IF valid THEN Other(turn) ELSE turn
        /\ moveCount' = IF valid THEN moveCount + 1 ELSE moveCount
        /\ dragPiece' = t.dragPiece
        /\ highlighted' = t.highlighted
        /\ lifted' = t.lifted
        /\ pieceBlock' = t.pieceBlock
        /\ blockPiece' = t.blockPiece
        /\ origin' = IF t.threw THEN origin ELSE NoSquare
        /\ dropped' = IF t.threw THEN dropped ELSE FALSE
        /\ UNCHANGED << deltaVars, renderVars >>
        /\ UNCHANGED << isDisabled, isBusy, banner, rxWaste, listeners,
                        mouseStreams, touchStreams, gesture >>

\* the promise of the i-th pending ctrl.move is rejected: dropPiece gave then()
\* no rejection handler, so no callback of the component runs
MoveFailed(i) ==
    /\ Tick
    /\ pending' = RemoveAt(pending, i)
    /\ UNCHANGED << deltaVars, renderVars >>
    /\ UNCHANGED << pos, turn, moveCount, dragPiece, isDisabled, isBusy, banner,
                    highlighted, rxWaste, listeners, mouseStreams, touchStreams,
                    lifted, moved, pieceBlock, blockPiece, origin, gesture,
                    dropped >>

Next ==
    \/ NewGame
    \/ Destroy
    \/ \E s \in GameStates :
          \E w \in (IF s = "CHECKMATE" THEN { "WHITE", "BLACK" } ELSE { "WHITE" }) :
             StateChanged(s, w)
    \/ \E v \in BOOLEAN : BlockUi(v)
    \/ BoardSynced
    \/ \E p \in Pieces : MoveUi(p)
    \/ \E target \in Pieces \cup { None } : MouseDown(target)
    \/ \E pt \in StartPoints : TouchStart(1, pt[1], pt[2])
    \/ TouchStart(0, rectLeft, rectTop)
    \/ MouseMove
    \/ TouchMove
    \/ \E pt \in EndPoints : MouseUp(pt[1], pt[2])
    \/ \E pt \in EndPoints : TouchEnd(pt[1], pt[2])
    \/ \E i \in 1 .. Len(pending) : ResolveMove(i)
    \/ \E i \in 1 .. Len(pending) : MoveFailed(i)

Spec == Init /\ [][Next]_vars

\* a game in which only the pointer and the move authority act
NextDrag ==
    \/ NewGame
    \/ \E target \in Pieces \cup { None } : MouseDown(target)
    \/ \E pt \in StartPoints : TouchStart(1, pt[1], pt[2])
    \/ \E pt \in EndPoints : MouseUp(pt[1], pt[2])
    \/ \E pt \in EndPoints : TouchEnd(pt[1], pt[2])
    \/ \E i \in 1 .. Len(pending) : ResolveMove(i)

SpecDrag == InitDrag /\ [][NextDrag]_vars

-----------------------------------------------------------------------------
(* The position updates of one accepted gesture *)

\* clientWidth / clientHeight of the parent node of the <svg> element
parentSize == 300

\* sizes the responsive <svg> element is rendered at (0: it has no box)
RenderedSizes == { 0, 200, 300 }

\* page coordinates of the samples, svgElement.currentScale and the
\* components of svgElement.currentTranslate
PageXs == { 110, 130 }
PageYs == { 120, 140 }
Scales == { 1, 2 }
Translations == { 0, 10 }

\* get ratioX / get ratioY for a rendered size
ratioOf(intrinsic, size) ==
    intrinsic \div (IF size # 0 THEN size ELSE parentSize)

\* the sample of an event at page coordinate p: pageX for the mouse,
\* touches[0].pageX - rect.left for a touch
sampleOf(fam, p, rectOrigin) == IF fam = "mouse" THEN p ELSE p - rectOrigin

\* one axis of the value the inner stream maps a move event to
delta(sample, last, translation, newScale, ratio) ==
    (((sample - translation) \div newScale) - last) * ratio

\* the flatMap callback of an accepted mousedown / touchstart at (px, py)
DragStart(fam, px, py) ==
    /\ dragFamily = "none"
    /\ dragFamily' = fam
    /\ viewPortRatioX' = ratioOf(width, surface.w)
    /\ viewPortRatioY' = ratioOf(height, surface.h)
    /\ lastX' = sampleOf(fam, px, rectLeft)
    /\ lastY' = sampleOf(fam, py, rectTop)
    /\ coords' = [ x |-> 0, y |-> 0 ]
    /\ start' = [ x |-> lastX', y |-> lastY' ]
    /\ samples' = 0
    /\ UNCHANGED << surface, boardVars, renderVars >>

\* a mousemove / touchmove at (px, py) while the inner stream is live: the
\* map callback computes res and the subscriber hands it to setCoordinates
DragMove(fam, px, py, newScale, tx, ty) ==
    LET sx == sampleOf(fam, px, rectLeft)
        sy == sampleOf(fam, py, rectTop)
    IN  /\ dragFamily = fam
        /\ samples < MaxSamples
        /\ coords' = [ x |-> coords.x + delta(sx, lastX, tx, newScale, viewPortRatioX),
                       y |-> coords.y + delta(sy, lastY, ty, newScale, viewPortRatioY) ]
        /\ lastX' = sx
        /\ lastY' = sy
        /\ samples' = samples + 1
        /\ UNCHANGED << dragFamily, viewPortRatioX, viewPortRatioY, surface, start,
                        boardVars, renderVars >>

\* the mouseup / touchend of the family completes the inner stream
DragStop(fam) ==
    /\ dragFamily = fam
    /\ dragFamily' = "none"
    /\ UNCHANGED << lastX, lastY, viewPortRatioX, viewPortRatioY, surface, coords,
                    start, samples, boardVars, renderVars >>

\* the responsive <svg> element is rendered at another size
Resize(w, h) ==
    /\ surface # [ w |-> w, h |-> h ]
    /\ surface' = [ w |-> w, h |-> h ]
    /\ UNCHANGED << dragFamily, lastX, lastY, viewPortRatioX, viewPortRatioY,
                    coords, start, samples, boardVars, renderVars >>

InitDelta == Constructed /\ NoDrag /\ budget = 0

NextDelta ==
    \/ \E fam \in { "mouse", "touch" } : \E px \in PageXs : \E py \in PageYs :
          DragStart(fam, px, py)
    \/ \E fam \in { "mouse", "touch" } : \E px \in PageXs : \E py \in PageYs :
          \E sc \in Scales : \E tx \in Translations : \E ty \in Translations :
             DragMove(fam, px, py, sc, tx, ty)
    \/ \E fam \in { "mouse", "touch" } : DragStop(fam)
    \/ \E w \in RenderedSizes : \E h \in RenderedSizes : Resize(w, h)

SpecDelta == InitDelta /\ [][NextDelta]_vars

-----------------------------------------------------------------------------
(* move(piece) and the rendered view *)

\* the timer of a deferred move(piece) fires
Retry(p) ==
    LET due == [ timers EXCEPT ![p] = @ - 1 ]
        m == move(p, rendered, inEngine, due, moved, pieceBlock, blockPiece, pos)
    IN  /\ timers[p] > 0
        /\ timers' = m.timers
        /\ pieceBlock' = m.pieceBlock
        /\ blockPiece' = m.blockPiece
        /\ moved' = m.moved
        /\ UNCHANGED << deltaVars, rendered, inEngine, budget >>
        /\ UNCHANGED << pos, turn, moveCount, dragPiece, isDisabled, isBusy, banner,
                        highlighted, rxWaste, listeners, mouseStreams, touchStreams,
                        lifted, pending, origin, gesture, dropped >>

\* change detection runs: the handles are those of engine.pieces, and a handle
\* made now is paired with no square yet
DetectChanges ==
    /\ rendered' = inEngine
    /\ pieceBlock' = [ p \in Pieces |->
                         IF p \in inEngine \ rendered THEN NoSquare ELSE pieceBlock[p] ]
    /\ UNCHANGED << deltaVars, inEngine, timers, budget >>
    /\ UNCHANGED << pos, turn, moveCount, dragPiece, isDisabled, isBusy, banner,
                    highlighted, rxWaste, listeners, mouseStreams, touchStreams,
                    lifted, moved, blockPiece, pending, origin, gesture, dropped >>

\* the engine takes a piece off the board (a capture) or puts one on it
RemovePiece(p) ==
    /\ Tick
    /\ p \in inEngine
    /\ inEngine' = inEngine \ { p }
    /\ UNCHANGED << deltaVars, rendered, timers >>
    /\ UNCHANGED << pos, turn, moveCount, dragPiece, isDisabled, isBusy, banner,
                    highlighted, rxWaste, listeners, mouseStreams, touchStreams,
                    lifted, moved, pieceBlock, blockPiece, pending, origin,
                    gesture, dropped >>

AddPiece(p) ==
    /\ Tick
    /\ p \notin inEngine
    /\ inEngine' = inEngine \cup { p }
    /\ UNCHANGED << deltaVars, rendered, timers >>
    /\ UNCHANGED << pos, turn, moveCount, dragPiece, isDisabled, isBusy, banner,
                    highlighted, rxWaste, listeners, mouseStreams, touchStreams,
                    lifted, moved, pieceBlock, blockPiece, pending, origin,
                    gesture, dropped >>

InitMove == Constructed /\ NoDrag /\ budget = MaxMoveEvents

NextMove ==
    \/ \E p \in Pieces : MoveUi(p)
    \/ \E p \in Pieces : Retry(p)
    \/ DetectChanges
    \/ \E p \in Pieces : RemovePiece(p)
    \/ \E p \in Pieces : AddPiece(p)

\* timers fire and change detection runs after every turn of the VM
SpecMove ==
    /\ InitMove /\ [][NextMove]_vars
    /\ \A p \in Pieces : WF_vars(Retry(p))
    /\ WF_vars(DetectChanges)

-----------------------------------------------------------------------------
(* Events, as steps of a behaviour *)

\* some start event is delivered: a mousedown (on a piece or beside the
\* pieces) or a touchstart
StartEvent ==
    \/ \E target \in Pieces \cup { None } : MouseDown(target)
    \/ \E pt \in StartPoints : TouchStart(1, pt[1], pt[2])
    \/ TouchStart(0, rectLeft, rectTop)

\* a drag session is active: a piece is lifted or a move result is pending
SessionActive == lifted # {} \/ Len(pending) > 0

-----------------------------------------------------------------------------
(* C1 *)

\* C1: at most one drag session exists (at most one piece is lifted), and a
\* start event delivered while a session is active is a no-op: the held
\* dragPiece, the lifted pieces and the highlighted set stay as they are.
C1_SingleSession ==
    [][ /\ Cardinality(lifted') <= 1
        /\ (SessionActive /\ StartEvent) =>
              /\ dragPiece' = dragPiece
              /\ lifted' = lifted
              /\ highlighted' = highlighted ]_vars

-----------------------------------------------------------------------------
(* C2 *)

\* C2: an end event whose device point lies outside the rendered board
\* rectangle never makes dropPiece call the move authority: no request is
\* added to the pending ones.
C2_OutsideNeverAsks ==
    [][ \A pt \in EndPoints :
          (OutsideBoard(pt[1], pt[2])
             /\ (MouseUp(pt[1], pt[2]) \/ TouchEnd(pt[1], pt[2])))
          => pending' = pending ]_vars

\* the end event of the rejected gesture in progress is delivered at pt
GestureEnd(kind, pt) ==
    /\ gesture.kind = kind
    /\ \/ gesture.fam = "mouse" /\ MouseUp(pt[1], pt[2])
       \/ gesture.fam = "touch" /\ TouchEnd(pt[1], pt[2])

\* a move event of the family of the rejected gesture in progress is delivered
GestureMove(kind) ==
    /\ gesture.kind = kind
    /\ \/ gesture.fam = "mouse" /\ MouseMove
       \/ gesture.fam = "touch" /\ TouchMove

\* the step runs no drop resolution: nothing is asked and no drag is ended
NoDropResolution ==
    /\ pending' = pending
    /\ dragPiece' = dragPiece
    /\ lifted' = lifted
    /\ pieceBlock' = pieceBlock

-----------------------------------------------------------------------------
(* C3 *)

\* C3: when the authority answers a submitted move with invalid = true and the
\* drag of the submitted piece is finalised, the piece handle is paired with
\* the square handle it had before the gesture started, and no other piece or
\* square pairing has changed.
C3_InvalidRestoresPairing ==
    [][ \A i \in 1 .. Len(pending) :
          (/\ ResolveMove(i)
           /\ ~Accepts(pending[i], pos, turn)
           /\ dragPiece = pending[i].piece)
          => /\ pieceBlock'[dragPiece] = origin
             /\ \A q \in Pieces \ { dragPiece } : pieceBlock'[q] = pieceBlock[q]
             /\ \A b \in Squares \ { origin } : blockPiece'[b] = blockPiece[b] ]_vars

-----------------------------------------------------------------------------
(* C4 *)

\* C4: when the authority accepts a submitted move (invalid = false) and the
\* drag of the submitted piece is finalised (the piece is no longer lifted),
\* the piece handle is paired with the square handle of the destination.
C4_AcceptedPairsDestination ==
    [][ \A i \in 1 .. Len(pending) :
          (/\ ResolveMove(i)
           /\ Accepts(pending[i], pos, turn)
           /\ pending[i].piece \notin lifted')
          => pieceBlock'[pending[i].piece] = pending[i].dest ]_vars

-----------------------------------------------------------------------------
(* C5 *)

\* every piece handle is paired with the square handle of its logical square
\* and every square handle of an empty logical square has no piece
Reconciled(pb, bp, ps) ==
    /\ \A p \in Pieces : pb[p] = ps[p] /\ bp[ps[p]] = p
    /\ \A b \in Squares \ Occupied(ps) : bp[b] = None

-----------------------------------------------------------------------------
(* C6 *)

\* C6: a call to newGame first cancels every listener registered earlier (no
\* listener is active before the re-registration), afterwards the active
\* listeners are exactly the six registered by that call, with no inner
\* stream of an earlier gesture left, and no kind ever has more than one
\* active listener however often newGame is called.
C6_NewGameCancelsListeners ==
    [][ /\ \A k \in Kinds : listeners'[k] <= 1
        /\ NewGame =>
              /\ \A k \in Kinds : clearSubscriptions(rxWaste, listeners).listeners[k] = 0
              /\ \A k \in Kinds : listeners'[k] = 1
              /\ Len(rxWaste') = Cardinality(Kinds)
              /\ { rxWaste'[n] : n \in 1 .. Len(rxWaste') } = Kinds
              /\ mouseStreams' = 0 /\ touchStreams' = 0 ]_vars

\* a game restarted in the middle of a drag: the piece is still lifted, the
\* six listeners are the new ones and the stream of the drag is gone
C6_RestartedMidDrag ==
    /\ \A k \in Kinds : listeners[k] = 1
    /\ dragPiece \in lifted
    /\ mouseStreams = 0 /\ touchStreams = 0
    /\ pending = << >> /\ ~dropped
    /\ moveCount = 0

-----------------------------------------------------------------------------
(* C7 *)

\* C7: a gesture started for a candidate piece whose colour differs from
\* engine.turn() never produces a position update: no move event of that
\* gesture makes the subscriber call setCoordinates.
C7_WrongColourNoUpdate ==
    [][ GestureMove("colour") => moved' = moved ]_vars

-----------------------------------------------------------------------------
(* C8 *)

\* C8: after a start event for a candidate of the colour not to move no drag
\* session exists (no piece held, lifted or highlighted), and the end event of
\* that gesture performs no drop resolution and submits no move.
C8_WrongColourNoSession ==
    [][ /\ (StartEvent /\ ~SessionActive /\ gesture'.kind = "colour") =>
              /\ dragPiece' = None
              /\ lifted' = {}
              /\ highlighted' = {}
        /\ \A pt \in EndPoints : GestureEnd("colour", pt) => NoDropResolution ]_vars

-----------------------------------------------------------------------------
(* C9 *)

\* C9: a start event delivered while interaction is blocked is ignored: it
\* lifts no piece and highlights no square, no move event of the gesture
\* updates a position, and its end event submits no move.
C9_BlockedStartIgnored ==
    [][ /\ (StartEvent /\ gesture'.kind = "blocked") =>
              /\ lifted' = lifted
              /\ highlighted' = highlighted
        /\ GestureMove("blocked") => moved' = moved
        /\ \A pt \in EndPoints : GestureEnd("blocked", pt) => pending' = pending ]_vars

-----------------------------------------------------------------------------
(* C10 *)

\* C10: between an accepted start and the finalisation of that drag dropPiece
\* runs at most once: once it has run for the lifted piece, a further end
\* event (mouseup or touchend) runs no drop resolution and asks the move
\* authority nothing.
C10_SingleDropResolution ==
    [][ \A pt \in EndPoints :
          (dropped /\ (MouseUp(pt[1], pt[2]) \/ TouchEnd(pt[1], pt[2])))
          => NoDropResolution ]_vars

-----------------------------------------------------------------------------
(* C11 *)

\* the drag session of piece p is finalised
Finalised(p, dp, lf, hl) == p \notin lf /\ dp = None /\ hl = {}

\* C11: every drop resolution is followed by the finalisation of the drag
\* session, whichever branch it takes: the end event that finds no square
\* handle, and the step at which the authority's promise settles (move
\* rejected, accepted, castling, or the promise failing), leave the dropped
\* piece out of the lifted state, dragPiece undefined and highlighted empty.
C11_DropAlwaysFinalises ==
    [][ /\ \A pt \in EndPoints :
              (/\ \/ listeners["mouseup"] > 0 /\ MouseUp(pt[1], pt[2])
                  \/ listeners["touchend"] > 0 /\ TouchEnd(pt[1], pt[2])
               /\ dragPiece # None
               /\ pending' = pending)
              => Finalised(dragPiece, dragPiece', lifted', highlighted')
        /\ \A i \in 1 .. Len(pending) :
              (ResolveMove(i) \/ MoveFailed(i))
              => Finalised(pending[i].piece, dragPiece', lifted', highlighted') ]_vars

-----------------------------------------------------------------------------
(* C12 *)

\* C12: a position update is applied only while a drag piece is held: a move
\* event (mousemove or touchmove) delivered when dragPiece is undefined is a
\* no-op. The position-update callback does not dereference the absent
\* dragPiece, so no handle is displaced and no subscription is torn down by
\* an exception.
C12_MoveWithoutPieceIsNoOp ==
    [][ (dragPiece = None /\ (MouseMove \/ TouchMove))
        => /\ moved' = moved
           /\ listeners' = listeners
           /\ mouseStreams' = mouseStreams
           /\ touchStreams' = touchStreams ]_vars

-----------------------------------------------------------------------------
(* C13 *)

\* C13: the result of a move submitted before newGame() that arrives after it
\* is ignored: the then-callback leaves the drag piece held, lifted and
\* highlighted as they are (it clears, resets and finalises nothing) and runs
\* no reconciliation of the handles.
C13_StaleResultIgnored ==
    [][ \A i \in 1 .. Len(pending) :
          (ResolveMove(i) /\ pending[i].stale)
          => /\ dragPiece' = dragPiece
             /\ lifted' = lifted
             /\ highlighted' = highlighted
             /\ moved' = moved
             /\ pieceBlock' = pieceBlock
             /\ blockPiece' = blockPiece ]_vars

-----------------------------------------------------------------------------
(* C14 *)

\* a pointer or touch event, or a notification of the engine, is delivered
PointerEvent ==
    \/ StartEvent
    \/ MouseMove \/ TouchMove
    \/ \E pt \in EndPoints : MouseUp(pt[1], pt[2]) \/ TouchEnd(pt[1], pt[2])

EngineNotification ==
    \/ BoardSynced
    \/ \E s \in GameStates : \E w \in { "WHITE", "BLACK" } : StateChanged(s, w)

\* the game ends: stateChanged delivers one of the five terminal states
GameEnds ==
    \E s \in GameStates \ { "IN_PROGRESS" } :
       \E w \in { "WHITE", "BLACK" } : StateChanged(s, w)

NoListener(ls) == \A k \in Kinds : ls[k] = 0

\* the state of the controller but for the drag reference
SessionState ==
    << isDisabled, isBusy, banner, highlighted, rxWaste, listeners, mouseStreams,
       touchStreams, lifted, moved, pieceBlock, blockPiece, pending, pos, turn >>

\* the end of the game and the destruction of the controller cancel every
\* listener, and an IN_PROGRESS notification cancels nothing
EndCancelsListeners ==
    /\ (GameEnds \/ Destroy) =>
          /\ NoListener(listeners')
          /\ rxWaste' = << >>
          /\ mouseStreams' = 0 /\ touchStreams' = 0
    /\ StateChanged("IN_PROGRESS", "WHITE") =>
          /\ listeners' = listeners
          /\ rxWaste' = rxWaste
          /\ banner' = banner

\* C14: after the game ends or the controller is destroyed zero listeners are
\* active, and while the game-over banner stands (until the next newGame) no
\* pointer, touch or engine notification changes the controller's state; an
\* IN_PROGRESS notification cancels nothing.
C14_GameOverFreezes ==
    [][ /\ EndCancelsListeners
        /\ (banner # "undefined" /\ (PointerEvent \/ EngineNotification)) =>
              /\ dragPiece' = dragPiece
              /\ SessionState' = SessionState ]_vars

\* C14, amended: after the game ends or the controller is destroyed zero
\* listeners are active and an IN_PROGRESS notification cancels nothing;
\* while no listener is active, a pointer, touch or engine notification
\* changes nothing of the controller's state except dragPiece, which a press
\* on a piece handle still sets through onPieceDrag.
C14_GameOverCancelsListeners ==
    [][ /\ EndCancelsListeners
        /\ (NoListener(listeners) /\ (PointerEvent \/ EngineNotification)) =>
              /\ SessionState' = SessionState
              /\ dragPiece' # dragPiece =>
                    \E target \in Pieces : MouseDown(target) /\ dragPiece' = target ]_vars

\* the game ended in the middle of a drag and a piece was pressed afterwards:
\* the banner stands, nothing listens, the first piece is still lifted and the
\* pressed one is the drag reference
C14_PressedAfterGameOver ==
    /\ banner # "undefined"
    /\ NoListener(listeners) /\ rxWaste = << >>
    /\ lifted # {}
    /\ dragPiece \in Pieces \ lifted

-----------------------------------------------------------------------------
(* C15 *)

\* dropPiece runs for the end event at pt: the drop subscription of the
\* event's family is live and a piece is held
DropAt(pt) ==
    /\ dragPiece # None
    /\ \/ listeners["mouseup"] > 0 /\ MouseUp(pt[1], pt[2])
       \/ listeners["touchend"] > 0 /\ TouchEnd(pt[1], pt[2])

\* C15: a drop submits the request {dragged piece, destination square} to the
\* authority if and only if a square handle exists at the index computed from
\* the drop point: with no handle the authority is not contacted, with a
\* handle the request is submitted whether or not the square is highlighted.
C15_SubmitsIffHandle ==
    [][ \A pt \in EndPoints :
          DropAt(pt) =>
             LET idx == pointToIndex((pt[1] - rectLeft) * ratioX,
                                     (pt[2] - rectTop) * ratioY)
             IN  IF idx \in Squares
                 THEN /\ Len(pending') = Len(pending) + 1
                      /\ SubSeq(pending', 1, Len(pending)) = pending
                      /\ pending'[Len(pending')].piece = dragPiece
                      /\ pending'[Len(pending')].dest = idx
                 ELSE pending' = pending ]_vars

\* a lifted piece was dropped on a square that is not highlighted and the
\* request is with the authority
C15_SubmittedUnhighlighted ==
    /\ dragPiece \in lifted
    /\ \E i \in 1 .. Len(pending) :
          /\ pending[i].piece = dragPiece
          /\ pending[i].dest \notin highlighted

-----------------------------------------------------------------------------
(* C16 *)

\* a drag started by the family is in progress and nothing else is under way:
\* the held piece is lifted, the position stream of the family is live, that
\* of the other family is not, and no drop has been made
DragOf(fam) ==
    /\ dragPiece \in lifted
    /\ Len(pending) = 0 /\ ~dropped
    /\ IF fam = "mouse" THEN mouseStreams > 0 /\ touchStreams = 0
                        ELSE touchStreams > 0 /\ mouseStreams = 0

\* C16: once a drag is in progress only the end event of the family that
\* started it is honoured: a touchend during a mouse-started drag, or a
\* mouseup during a touch-started drag, neither resolves the drop nor clears
\* dragPiece, and leaves the position stream of the drag live.
C16_OtherFamilyEndIgnored ==
    [][ \A pt \in EndPoints :
          (\/ DragOf("mouse") /\ TouchEnd(pt[1], pt[2])
           \/ DragOf("touch") /\ MouseUp(pt[1], pt[2]))
          => /\ NoDropResolution
             /\ mouseStreams' = mouseStreams
             /\ touchStreams' = touchStreams ]_vars

-----------------------------------------------------------------------------
(* C17 *)

\* C17: within one gesture every position update equals (current sample minus
\* previous sample) times the per-axis viewport ratio captured at the start
\* of the gesture, whatever the surface's current scale and translation are;
\* hence the accumulated offset equals ratio times (last sample minus start
\* sample), and a change of the rendered size does not alter the ratio used.
C17_UpdateIsScaledDifference ==
    [][ /\ samples' = samples + 1 =>
              /\ coords'.x - coords.x = (lastX' - lastX) * viewPortRatioX
              /\ coords'.y - coords.y = (lastY' - lastY) * viewPortRatioY
        /\ dragFamily' # "none" =>
              /\ coords'.x = viewPortRatioX' * (lastX' - start'.x)
              /\ coords'.y = viewPortRatioY' * (lastY' - start'.y)
        /\ dragFamily # "none" /\ surface' # surface =>
              /\ viewPortRatioX' = viewPortRatioX
              /\ viewPortRatioY' = viewPortRatioY ]_vars

-----------------------------------------------------------------------------
(* C18 *)

\* move(piece) runs for p, called from outside or by a timer that has fired
MoveRuns(p) == MoveUi(p) \/ Retry(p)

\* the timers due for p once the one that fired (if any) is gone
DueBefore(p) == IF MoveUi(p) THEN timers[p] ELSE timers[p] - 1

\* nothing of the handles changes
HandlesUnchanged ==
    /\ pieceBlock' = pieceBlock
    /\ blockPiece' = blockPiece
    /\ moved' = moved

-----------------------------------------------------------------------------
(* C19 *)

\* C19: in every reachable state a piece handle is lifted only if it is the
\* current dragPiece, and the highlighted set is non-empty only while a
\* dragPiece is held: no piece stays lifted and no square highlighted without
\* a session that can finalise them.
C19_LiftedOnlyWhileHeld ==
    /\ \A p \in lifted : p = dragPiece
    /\ highlighted # {} => dragPiece # None

-----------------------------------------------------------------------------
(* C20 *)

\* C20: with game-state notifications arriving only through the subscription
\* made in newGame, the game-over banner is defined exactly from a
\* terminal-state notification until the next newGame: whenever the banner is
\* defined no listener is active (so whenever a listener is active the banner
\* is undefined), the banner changes only at a terminal notification and at
\* newGame, a CHECKMATE banner names Black when engine.winner() is BLACK and
\* White otherwise, and the four draw states yield the draw message.
C20_BannerOnlyWhileGameOver ==
    /\ [](banner # "undefined" => NoListener(listeners))
    /\ [][ /\ NewGame => banner' = "undefined"
           /\ banner' # banner => (NewGame \/ GameEnds)
           /\ GameEnds => banner' # "undefined"
           /\ StateChanged("CHECKMATE", "BLACK") => banner' = "Black wins!"
           /\ StateChanged("CHECKMATE", "WHITE") => banner' = "White wins!"
           /\ \A s \in { "DRAW", "STALEMATE", "THREEFOLD_REPETITION",
                         "INSUFFICIENT_MATERIAL" } :
                 StateChanged(s, "WHITE") => banner' = "It's a draw!" ]_vars

\* Black has mated in the middle of a drag: the banner names Black and nothing
\* listens
C20_BlackWinsBanner ==
    /\ banner = "Black wins!"
    /\ NoListener(listeners)
    /\ rxWaste = << >>
    /\ dragPiece \in lifted

=============================================================================
